---- MODULE Spec2Model ----
(***************************************************************************)
(* A model of monkeytest.py: the size-string parser str_to_bytes, the      *)
(* Benchmark object (clamping, write_test, read_test, results) and main(). *)
(*                                                                         *)
(* Strings are sequences of one-character strings.  The target file is a   *)
(* record [exists, data] whose data is the sequence of its bytes: "zero"   *)
(* is a byte written by write_test (bytearray(block_size) is all zeros),   *)
(* "old" is a byte the file held before the run.  Timing samples are clock *)
(* ticks in 1..MaxTick.  Python exceptions are records [type, at].         *)
(***************************************************************************)
EXTENDS Integers, Sequences, FiniteSets

VARIABLES
    pc,             \* position of the process: main's and Benchmark's steps
    euid,           \* os.geteuid() of the process: "root" or "user"
    argv,           \* command line: [size, write_block_size, read_block_size, json]
    args,           \* get_args()'s namespace, the strings parsed by str_to_bytes
    file,           \* the target file args.file on disk: [exists, data]
    created,        \* the run's os.open(O_CREAT) created the target file
    json_file,      \* the file at args.json: "absent", "empty" or "written"
    write,          \* self.write
    write_block,    \* self.write_block
    read_block,     \* self.read_block
    wr_blocks,      \* __init__'s local wr_blocks
    rd_blocks,      \* __init__'s local rd_blocks
    fd,             \* the open descriptor f: [open, pos]
    i,              \* the number of loop iterations completed in the current pass
    took,           \* the current pass's local list took
    brk,            \* read_test's loop was left by break
    offsets,        \* read_test's local list offsets
    cache_drop,     \* how force_cache_drop went: "no" (not called), "ok", "failed"
    preads,         \* log of the os.pread calls made: <<offset, bytes returned>>
    nwritten,       \* total of the bytes os.write has written
    write_results,  \* self.write_results
    read_results,   \* self.read_results
    summary,        \* the dict self.results returned to the reporter, or None
    exc,            \* the uncaught exception that ended the run, or NoExc
    arg,            \* str_to_bytes called on its own: the argument
    parsed          \* str_to_bytes called on its own: the outcome

vars == <<pc, euid, argv, args, file, created, json_file, write, write_block,
          read_block, wr_blocks, rd_blocks, fd, i, took, brk, offsets, preads,
          nwritten, write_results, read_results, summary, exc, arg, parsed,
          cache_drop>>

(***************************************************************************)
(* Bounds                                                                  *)
(***************************************************************************)
MaxSize == 3        \* --size is 0..MaxSize bytes, a block size 0..MaxSize+1
MaxTick == 2        \* a timing sample is 1..MaxTick clock ticks
MaxArgLen == 4      \* length of the strings str_to_bytes is applied to
MaxCount == 3       \* blocks_count of a direct read_test call is 0..MaxCount
MaxBlock == 2       \* block_size of a direct read_test call is 1..MaxBlock

NoExc == [type |-> "none", at |-> "none"]
Exc(t, a) == [type |-> t, at |-> a]

Min(a, b) == IF a <= b THEN a ELSE b
Max(a, b) == IF a >= b THEN a ELSE b

RECURSIVE Sum(_)
Sum(s) == IF s = <<>> THEN 0 ELSE Head(s) + Sum(Tail(s))

SeqMin(s) == CHOOSE x \in {s[k] : k \in 1..Len(s)} :
                 \A y \in {s[k] : k \in 1..Len(s)} : x <= y
SeqMax(s) == CHOOSE x \in {s[k] : k \in 1..Len(s)} :
                 \A y \in {s[k] : k \in 1..Len(s)} : x >= y

(***************************************************************************)
(* str_to_bytes                                                            *)
(***************************************************************************)
DigitChars == <<"0", "1", "2", "3", "4", "5", "6", "7", "8", "9">>
IsDigit(c) == \E d \in 1..Len(DigitChars) : DigitChars[d] = c
DigitVal(c) == (CHOOSE d \in 1..Len(DigitChars) : DigitChars[d] = c) - 1

\* str.upper(), on the letters the inputs are drawn from
UpperChar(c) ==
    CASE c = "k" -> "K"
      [] c = "m" -> "M"
      [] c = "g" -> "G"
      [] c = "t" -> "T"
      [] c = "b" -> "B"
      [] c = "x" -> "X"
      [] OTHER   -> c
Upper(s) == [k \in 1..Len(s) |-> UpperChar(s[k])]

\* the number of digits of s from position p on (\d+ is greedy)
RECURSIVE DigitRun(_, _)
DigitRun(s, p) ==
    IF p <= Len(s) /\ IsDigit(s[p]) THEN 1 + DigitRun(s, p + 1) ELSE 0

\* the value of the decimal digits string s
RECURSIVE DecVal(_)
DecVal(s) ==
    IF s = <<>> THEN 0
    ELSE 10 * DecVal(SubSeq(s, 1, Len(s) - 1)) + DigitVal(s[Len(s)])

\* re.match(r'^(\d+(?:\.\d+)?)\s?([KMGT]?B)?', s): whether the pattern matches
\* at the start of s and, when it does, groups(): the digits before and after
\* the point and the unit, <<>> standing for the None of a unit group that
\* took no part.  The pattern has no end anchor: what follows is ignored.
ReMatch(s) ==
    LET n1 == DigitRun(s, 1)
        p1 == n1 + 1
        n2 == IF p1 <= Len(s) /\ s[p1] = "." THEN DigitRun(s, p1 + 1) ELSE 0
        p2 == IF n2 > 0 THEN p1 + 1 + n2 ELSE p1
        p3 == IF p2 <= Len(s) /\ s[p2] = " " THEN p2 + 1 ELSE p2
        unit == IF p3 + 1 <= Len(s) /\ s[p3] \in {"K", "M", "G", "T"}
                   /\ s[p3 + 1] = "B"
                THEN <<s[p3], "B">>
                ELSE IF p3 <= Len(s) /\ s[p3] = "B" THEN <<"B">> ELSE <<>>
    IN  [matched |-> n1 > 0,
         int     |-> SubSeq(s, 1, n1),
         frac    |-> IF n2 > 0 THEN SubSeq(s, p1 + 1, p1 + n2) ELSE <<>>,
         unit    |-> unit]

\* the dict units
UnitNames == {<<"B">>, <<"K", "B">>, <<"M", "B">>, <<"G", "B">>, <<"T", "B">>}
units(u) ==
    CASE u = <<"B">>      -> 1
      [] u = <<"K", "B">> -> 2^10
      [] u = <<"M", "B">> -> 2^20
      [] u = <<"G", "B">> -> 2^30
      [] u = <<"T", "B">> -> 2^40

\* units.get(unit, 'B'): a number for a unit of the dict; for any other key,
\* the None of an absent unit among them, the default, which is the string
\* 'B' and not units['B']
UnitsGet(u) ==
    IF u \in UnitNames THEN [isnum |-> TRUE, val |-> units(u)]
    ELSE [isnum |-> FALSE, val |-> 0]

\* int(float(number) * m) for a number m: the product truncated
IntOfProduct(int, frac, m) ==
    ((DecVal(int) * 10^Len(frac) + DecVal(frac)) * m) \div 10^Len(frac)

IntResult(n) == [kind |-> "int", val |-> n]
NoneResult == [kind |-> "None", val |-> 0]
Raised(t) == [kind |-> t, val |-> 0]

\* str_to_bytes(size): an integer, None (no match: the AttributeError of
\* None.groups() is caught), or the TypeError of float * str, which the
\* except clause does not catch
str_to_bytes(size) ==
    LET m == ReMatch(Upper(size))
        mult == UnitsGet(m.unit)
    IN  IF ~m.matched THEN NoneResult
        ELSE IF ~mult.isnum THEN Raised("TypeError")
        ELSE IntResult(IntOfProduct(m.int, m.frac, mult.val))

(***************************************************************************)
(* The target file and the low-level I/O calls                             *)
(***************************************************************************)
Absent == [exists |-> FALSE, data |-> <<>>]
OldFile(n) == [exists |-> TRUE, data |-> [k \in 1..n |-> "old"]]
Closed == [open |-> FALSE, pos |-> 0]

\* os.open(self.file, O_CREAT | O_WRONLY | O_SYNC): the file is created when
\* absent; an existing file keeps its contents (the flags hold no O_TRUNC)
OpenForWrite(f) == IF f.exists THEN f ELSE [exists |-> TRUE, data |-> <<>>]

\* os.write(f, bytearray(n)) at position pos: n zero bytes over what is there
WriteAt(data, pos, n) ==
    [k \in 1..Max(Len(data), pos + n) |->
        IF k > pos /\ k <= pos + n THEN "zero" ELSE data[k]]

\* len(os.pread(f, block_size, offset)): what the file holds from offset on
PreadLen(data, block_size, offset) ==
    Max(0, Min(block_size, Len(data) - offset))

(***************************************************************************)
(* Benchmark.__init__                                                      *)
(***************************************************************************)
\* the block size taken as given, with no clamping
ClampNone(x, w) == x

\* lambda x: min(x, self.write)
Clamp(x, w) == Min(x, w)

\* lambda x: int(self.write / x), for x > 0
BlocksOf(w, x) == w \div x

(***************************************************************************)
(* Benchmark.read_test's offsets                                           *)
(***************************************************************************)
\* the range started one block late
RangeOffsetsFromBlock(block_size, blocks_count) ==
    [k \in 1..blocks_count |-> k * block_size]

\* list(range(0, blocks_count * block_size, block_size))
RangeOffsets(block_size, blocks_count) ==
    [k \in 1..blocks_count |-> (k - 1) * block_size]

\* the orders random.shuffle can leave a list in
Shuffles(s) ==
    LET n == Len(s)
        P == {f \in [1..n -> 1..n] : \A a, b \in 1..n : f[a] = f[b] => a = b}
    IN  {[k \in 1..n |-> s[f[k]]] : f \in P}

\* the sample appended before the end-of-file test
ReadTookAlways(tk, n, t) == Append(tk, t)

\* took after one iteration of read_test's loop that read n bytes in t ticks:
\* if not buff: break; took.append(t)
ReadTook(tk, n, t) == IF n = 0 THEN tk ELSE Append(tk, t)

(***************************************************************************)
(* Benchmark.results                                                       *)
(***************************************************************************)
NoSummary ==
    [ok |-> FALSE, written_bytes |-> 0, write_time |-> 0,
     write_speed |-> <<0, 1>>, write_speed_min |-> <<0, 1>>,
     write_speed_max |-> <<0, 1>>, read_blocks |-> 0, block_size |-> 0,
     read_time |-> 0, read_speed |-> <<0, 1>>, read_speed_max |-> <<0, 1>>,
     read_speed_min |-> <<0, 1>>]

\* the exception evaluating the dict raises, its entries taken in order:
\* self.write / sum(...) divides by zero for an empty list before min() or
\* max() of that list is reached
ResultsError(wres, rres) ==
    IF Sum(wres) = 0 THEN "ZeroDivisionError"
    ELSE IF Sum(rres) = 0 THEN "ZeroDivisionError"
    ELSE "none"

\* the byte count given to convert_results for 'written_mb'
WrittenBytes(w, wblock, wres) == w

\* the dict, each speed as <<bytes, ticks>> and each size in bytes, before
\* convert_results scales and rounds it
Results(w, wblock, rblock, wres, rres) ==
    [ok              |-> TRUE,
     written_bytes   |-> WrittenBytes(w, wblock, wres),
     write_time      |-> Sum(wres),
     write_speed     |-> <<w, Sum(wres)>>,
     write_speed_min |-> <<wblock, SeqMax(wres)>>,
     write_speed_max |-> <<wblock, SeqMin(wres)>>,
     read_blocks     |-> Len(rres),
     block_size      |-> rblock,
     read_time       |-> Sum(rres),
     read_speed      |-> <<w, Sum(rres)>>,
     read_speed_max  |-> <<rblock, SeqMin(rres)>>,
     read_speed_min  |-> <<rblock, SeqMax(rres)>>]

(***************************************************************************)
(* The inputs                                                              *)
(***************************************************************************)
Ticks == 1..MaxTick

\* a size of n bytes as given on the command line: "<n>B"
SizeArg(n) == <<DigitChars[n + 1], "B">>

\* the strings a run is given as --size and as a block size: a number of
\* bytes with its unit, a number with no unit, and a string that is no size
SizeArgs == {SizeArg(n) : n \in 0..MaxSize} \cup {<<"2">>, <<"B">>}
BlockArgs == {SizeArg(n) : n \in 0..(MaxSize + 1)} \cup {<<"2">>, <<"B">>}

Idle ==
    /\ args = [size |-> NoneResult, write_block_size |-> NoneResult,
               read_block_size |-> NoneResult]
    /\ created = FALSE
    /\ json_file = "absent"
    /\ write = 0 /\ write_block = 0 /\ wr_blocks = 0
    /\ fd = Closed /\ i = 0 /\ took = <<>> /\ brk = FALSE
    /\ offsets = <<>> /\ preads = <<>> /\ nwritten = 0
    /\ write_results = <<>> /\ read_results = <<>>
    /\ summary = NoSummary /\ exc = NoExc
    /\ cache_drop = "no"

\* the process starts in main(); the target file may exist from before
Init ==
    /\ pc = "main"
    /\ euid \in {"root", "user"}
    /\ argv \in [size : SizeArgs, write_block_size : BlockArgs,
                 read_block_size : BlockArgs, json : BOOLEAN]
    /\ file \in {Absent} \cup {OldFile(n) : n \in 0..(MaxSize + 1)}
    /\ read_block = 0 /\ rd_blocks = 0
    /\ arg = <<>> /\ parsed = NoneResult
    /\ Idle

\* an uncaught exception ends the process
Abort(t, a) == pc' = "exit_error" /\ exc' = Exc(t, a)

(***************************************************************************)
(* main                                                                    *)
(***************************************************************************)
\* if os.geteuid() != 0: os.execl(sudo_path, ...): the script starts again as
\* root, or shutil.which found no sudo and execl(None, ...) raises
Relaunch ==
    /\ pc = "main"
    /\ euid # "root"
    /\ \E sudo_found \in BOOLEAN :
          \/ /\ sudo_found
             /\ euid' = "root"
             /\ UNCHANGED <<pc, exc>>
          \/ /\ ~sudo_found
             /\ Abort("TypeError", "main")
             /\ UNCHANGED euid
    /\ UNCHANGED <<argv, args, file, created, json_file, write, write_block,
                   read_block, wr_blocks, rd_blocks, fd, i, took, brk,
                   offsets, preads, nwritten, write_results, read_results,
                   summary, arg, parsed, cache_drop>>

\* args = get_args(): argparse applies type=str_to_bytes to the three sizes
\* and ends the process when it raises TypeError; a None is a value like any
GetArgs ==
    /\ pc = "main"
    /\ euid = "root"
    /\ LET a == [size             |-> str_to_bytes(argv.size),
                 write_block_size |-> str_to_bytes(argv.write_block_size),
                 read_block_size  |-> str_to_bytes(argv.read_block_size)]
       IN  IF \E k \in DOMAIN a : a[k].kind = "TypeError"
           THEN Abort("SystemExit", "get_args") /\ UNCHANGED args
           ELSE pc' = "init" /\ args' = a /\ UNCHANGED exc
    /\ UNCHANGED <<euid, argv, file, created, json_file, write, write_block,
                   read_block, wr_blocks, rd_blocks, fd, i, took, brk,
                   offsets, preads, nwritten, write_results, read_results,
                   summary, arg, parsed, cache_drop>>

\* Benchmark.__init__ up to the call of write_test: min(x, None) raises
\* TypeError, int(self.write / 0) raises ZeroDivisionError
BenchInit ==
    /\ pc = "init"
    /\ IF \E k \in DOMAIN args : args[k].kind = "None"
       THEN /\ Abort("TypeError", "__init__")
            /\ UNCHANGED <<write, write_block, read_block, wr_blocks, rd_blocks>>
       ELSE LET w  == args.size.val
                wb == Clamp(args.write_block_size.val, w)
                rb == Clamp(args.read_block_size.val, w)
            IN  /\ write' = w
                /\ write_block' = wb
                /\ read_block' = rb
                /\ IF wb = 0 \/ rb = 0
                   THEN /\ Abort("ZeroDivisionError", "__init__")
                        /\ UNCHANGED <<wr_blocks, rd_blocks>>
                   ELSE /\ wr_blocks' = BlocksOf(w, wb)
                        /\ rd_blocks' = BlocksOf(w, rb)
                        /\ pc' = "write_test"
                        /\ UNCHANGED exc
    /\ UNCHANGED <<euid, argv, args, file, created, json_file, fd, i, took,
                   brk, offsets, preads, nwritten, write_results,
                   read_results, summary, arg, parsed, cache_drop>>

(***************************************************************************)
(* Benchmark.write_test                                                    *)
(***************************************************************************)
\* f = os.open(self.file, ...); took = []
WriteOpen ==
    /\ pc = "write_test"
    /\ \E ok \in BOOLEAN :
          \/ /\ ok
             /\ file' = OpenForWrite(file)
             /\ created' = ~file.exists
             /\ fd' = [open |-> TRUE, pos |-> 0]
             /\ i' = 0 /\ took' = <<>>
             /\ pc' = "write_loop"
             /\ UNCHANGED exc
          \/ /\ ~ok
             /\ Abort("OSError", "write_test")
             /\ UNCHANGED <<file, created, fd, i, took>>
    /\ UNCHANGED <<euid, argv, args, json_file, write, write_block,
                   read_block, wr_blocks, rd_blocks, brk, offsets, preads,
                   nwritten, write_results, read_results, summary, arg,
                   parsed, cache_drop>>

\* one iteration of the loop: os.write(f, bytearray(block_size)), timed
WriteBlock ==
    /\ pc = "write_loop"
    /\ i < wr_blocks
    /\ \/ \E t \in Ticks :
             /\ file' = [file EXCEPT !.data = WriteAt(@, fd.pos, write_block)]
             /\ fd' = [fd EXCEPT !.pos = @ + write_block]
             /\ nwritten' = nwritten + write_block
             /\ took' = Append(took, t)
             /\ i' = i + 1
             /\ UNCHANGED <<pc, exc>>
       \/ /\ Abort("OSError", "write_test")
          /\ UNCHANGED <<file, fd, nwritten, took, i>>
    /\ UNCHANGED <<euid, argv, args, created, json_file, write, write_block,
                   read_block, wr_blocks, rd_blocks, brk, offsets, preads,
                   write_results, read_results, summary, arg, parsed,
                   cache_drop>>

\* os.close(f); return took, assigned to self.write_results
WriteReturn ==
    /\ pc = "write_loop"
    /\ i = wr_blocks
    /\ fd' = Closed
    /\ write_results' = took
    /\ took' = <<>> /\ i' = 0
    /\ pc' = "read_test"
    /\ UNCHANGED <<euid, argv, args, file, created, json_file, write,
                   write_block, read_block, wr_blocks, rd_blocks, brk,
                   offsets, preads, nwritten, read_results, summary, exc, arg,
                   parsed, cache_drop>>

(***************************************************************************)
(* Benchmark.read_test                                                     *)
(***************************************************************************)
\* f = os.open(self.file, flags); offsets = list(range(...)); shuffle(offsets).
\* O_DIRECT, set when the file is not under the temporary directory, changes
\* no step: it adds to the reasons os.open and os.pread may raise OSError
ReadOpen ==
    /\ pc = "read_test"
    /\ \/ /\ file.exists
          /\ fd' = [open |-> TRUE, pos |-> 0]
          /\ offsets' \in Shuffles(RangeOffsets(read_block, rd_blocks))
          /\ pc' = "cache_drop"
          /\ UNCHANGED exc
       \/ /\ Abort("OSError", "read_test")
          /\ UNCHANGED <<fd, offsets>>
    /\ UNCHANGED <<euid, argv, args, file, created, json_file, write,
                   write_block, read_block, wr_blocks, rd_blocks, i, took,
                   brk, preads, nwritten, write_results, read_results,
                   summary, arg, parsed, cache_drop>>

\* the failure caught and dropped
CacheDropSwallowed(ok) == FALSE

\* whether a failure of force_cache_drop's open() or write() leaves read_test
\* as an exception: nothing between the call and main catches it
CacheDropRaises(ok) == ~ok

\* self.force_cache_drop(); took = []
ForceCacheDrop ==
    /\ pc = "cache_drop"
    /\ \E ok \in BOOLEAN :
          /\ cache_drop' = IF ok THEN "ok" ELSE "failed"
          /\ IF CacheDropRaises(ok)
             THEN Abort("OSError", "force_cache_drop")
             ELSE pc' = "read_loop" /\ UNCHANGED exc
    /\ i' = 0 /\ took' = <<>> /\ brk' = FALSE
    /\ UNCHANGED <<euid, argv, args, file, created, json_file, write,
                   write_block, read_block, wr_blocks, rd_blocks, fd, offsets,
                   preads, nwritten, write_results, read_results, summary,
                   arg, parsed>>

\* one iteration of the loop: buff = os.pread(f, block_size, offset), timed;
\* an empty buff breaks out of the loop
\* (the progress print of lines 166-169, whose last line repeats the end of
\* the call, is taken as the one print it was before the repeat: it changes
\* no state)
ReadBlock ==
    /\ pc = "read_loop"
    /\ ~brk
    /\ i < Len(offsets)
    /\ \/ \E t \in Ticks :
             LET offset == offsets[i + 1]
                 n == PreadLen(file.data, read_block, offset)
             IN  /\ preads' = Append(preads, <<offset, n>>)
                 /\ took' = ReadTook(took, n, t)
                 /\ brk' = (n = 0)
                 /\ i' = i + 1
                 /\ UNCHANGED <<pc, exc>>
       \/ /\ Abort("OSError", "read_test")
          /\ UNCHANGED <<preads, took, brk, i>>
    /\ UNCHANGED <<euid, argv, args, file, created, json_file, write,
                   write_block, read_block, wr_blocks, rd_blocks, fd, offsets,
                   nwritten, write_results, read_results, summary, arg,
                   parsed, cache_drop>>

\* os.close(f); return took, assigned to self.read_results
ReadReturn ==
    /\ pc = "read_loop"
    /\ brk \/ i = Len(offsets)
    /\ fd' = Closed
    /\ read_results' = took
    /\ pc' = "report"
    /\ UNCHANGED <<euid, argv, args, file, created, json_file, write,
                   write_block, read_block, wr_blocks, rd_blocks, i, took,
                   brk, offsets, preads, nwritten, write_results, summary,
                   exc, arg, parsed, cache_drop>>

(***************************************************************************)
(* The reports and the end of main                                         *)
(***************************************************************************)
\* benchmark.get_json_result(args.json): open(output_file, 'w') creates or
\* empties the file, then self.results is evaluated, then dumped into it
GetJsonResult ==
    /\ pc = "report"
    /\ argv.json
    /\ \/ /\ Abort("OSError", "get_json_result")
          /\ UNCHANGED <<json_file, summary>>
       \/ LET err == ResultsError(write_results, read_results)
          IN  IF err # "none"
              THEN /\ json_file' = "empty"
                   /\ Abort(err, "results")
                   /\ UNCHANGED summary
              ELSE /\ json_file' = "written"
                   /\ summary' = Results(write, write_block, read_block,
                                         write_results, read_results)
                   /\ pc' = "remove"
                   /\ UNCHANGED exc
    /\ UNCHANGED <<euid, argv, args, file, created, write, write_block,
                   read_block, wr_blocks, rd_blocks, fd, i, took, brk,
                   offsets, preads, nwritten, write_results, read_results,
                   arg, parsed, cache_drop>>

\* benchmark.print_result(): self.results is evaluated, then printed
PrintResult ==
    /\ pc = "report"
    /\ ~argv.json
    /\ LET err == ResultsError(write_results, read_results)
       IN  IF err # "none"
           THEN Abort(err, "results") /\ UNCHANGED summary
           ELSE /\ summary' = Results(write, write_block, read_block,
                                      write_results, read_results)
                /\ pc' = "remove"
                /\ UNCHANGED exc
    /\ UNCHANGED <<euid, argv, args, file, created, json_file, write,
                   write_block, read_block, wr_blocks, rd_blocks, fd, i, took,
                   brk, offsets, preads, nwritten, write_results,
                   read_results, arg, parsed, cache_drop>>

\* os.remove(args.file)
Remove ==
    /\ pc = "remove"
    /\ file' = Absent
    /\ pc' = "exit"
    /\ UNCHANGED <<euid, argv, args, created, json_file, write, write_block,
                   read_block, wr_blocks, rd_blocks, fd, i, took, brk,
                   offsets, preads, nwritten, write_results, read_results,
                   summary, exc, arg, parsed, cache_drop>>

Next ==
    \/ Relaunch
    \/ GetArgs
    \/ BenchInit
    \/ WriteOpen
    \/ WriteBlock
    \/ WriteReturn
    \/ ReadOpen
    \/ ForceCacheDrop
    \/ ReadBlock
    \/ ReadReturn
    \/ GetJsonResult
    \/ PrintResult
    \/ Remove

Spec == Init /\ [][Next]_vars

(***************************************************************************)
(* read_test called on its own, on any file, with any block_size > 0 and   *)
(* any blocks_count >= 0                                                   *)
(***************************************************************************)
InitRead ==
    /\ pc = "read_test"
    /\ euid = "root"
    /\ argv = [size |-> <<>>, write_block_size |-> <<>>,
               read_block_size |-> <<>>, json |-> FALSE]
    /\ file \in {[exists |-> TRUE, data |-> [k \in 1..n |-> "zero"]] :
                    n \in 0..(MaxCount * MaxBlock)}
    /\ read_block \in 1..MaxBlock
    /\ rd_blocks \in 0..MaxCount
    /\ arg = <<>> /\ parsed = NoneResult
    /\ Idle

NextRead ==
    \/ ReadOpen
    \/ ForceCacheDrop
    \/ ReadBlock
    \/ ReadReturn

SpecRead == InitRead /\ [][NextRead]_vars

(***************************************************************************)
(* str_to_bytes called on its own, on any short string                     *)
(***************************************************************************)
Alphabet == {"1", "5", ".", " ", "K", "M", "k", "B", "b", "X"}

InitParse ==
    /\ pc = "str_to_bytes"
    /\ arg \in UNION {[1..n -> Alphabet] : n \in 0..MaxArgLen}
    /\ parsed = NoneResult
    /\ euid = "root"
    /\ argv = [size |-> <<>>, write_block_size |-> <<>>,
               read_block_size |-> <<>>, json |-> FALSE]
    /\ file = Absent
    /\ read_block = 0 /\ rd_blocks = 0
    /\ Idle

StrToBytes ==
    /\ pc = "str_to_bytes"
    /\ parsed' = str_to_bytes(arg)
    /\ pc' = "returned"
    /\ UNCHANGED <<euid, argv, args, file, created, json_file, write,
                   write_block, read_block, wr_blocks, rd_blocks, fd, i, took,
                   brk, offsets, preads, nwritten, write_results,
                   read_results, summary, exc, arg, cache_drop>>

NextParse == StrToBytes

SpecParse == InitParse /\ [][NextParse]_vars

(***************************************************************************)
(* The claims                                                              *)
(***************************************************************************)
Ended == pc \in {"exit", "exit_error"}

\* C1: on every exit path of a run in which the target file was created,
\* the target file no longer exists when the run ends.
C1_FileRemovedOnEveryExit == (Ended /\ created) => ~file.exists

\* the number of leading offsets of offs that lie inside a file of len bytes:
\* the reads that return at least one byte before the first that returns none
RECURSIVE LeadingInside(_, _)
LeadingInside(offs, len) ==
    IF offs = <<>> \/ Head(offs) >= len THEN 0
    ELSE 1 + LeadingInside(Tail(offs), len)

\* C2: read_test ends at the first read that returns zero bytes: no sample is
\* appended for that read, no later offset is read, and the timing sequence
\* returned has as many elements as reads that returned at least one byte
\* before it, hence no more than there are offsets.
C2_ReadStopsAtFirstEmptyRead ==
    pc = "report" =>
        LET k == LeadingInside(offsets, Len(file.data))
        IN  /\ Len(read_results) = k
            /\ Len(preads) = Min(k + 1, Len(offsets))
            /\ \A j \in 1..Len(preads) :
                  /\ preads[j][1] = offsets[j]
                  /\ (preads[j][2] = 0) <=> (j = k + 1)
            /\ Len(read_results) <= Len(offsets)

\* C2's case: a read returned zero bytes after some reads returned data and
\* before the last offset
C2_Witness ==
    /\ pc = "report"
    /\ Len(read_results) >= 1
    /\ Len(preads) < Len(offsets)
    /\ preads[Len(preads)][2] = 0

\* the offsets a read pass is to cover
OffsetSet(block_size, blocks_count) ==
    {k * block_size : k \in 0..(blocks_count - 1)}

IsPermutationOf(seq, set) ==
    /\ Len(seq) = Cardinality(set)
    /\ {seq[k] : k \in 1..Len(seq)} = set

Visited == [k \in 1..Len(preads) |-> preads[k][1]]

C4_SamplesOrDedicatedError ==
    /\ summary.ok => (Len(write_results) >= 1 /\ Len(read_results) >= 1)
    /\ exc.at = "results" => exc.type = "AggregationError"

C6_WriteTruncates ==
    pc = "read_test" =>
        /\ Len(file.data) = wr_blocks * write_block
        /\ \A k \in 1..Len(file.data) : file.data[k] # "old"

\* C7: for a total size S > 0, a requested block size above S is clamped to
\* S and the pass is given one block covering the whole payload; a requested
\* block size of S or less is the effective one.
C7_BlockSizesClamped ==
    (/\ pc \notin {"main", "init"}
     /\ \A k \in DOMAIN args : args[k].kind = "int"
     /\ args.size.val > 0) =>
        LET S == args.size.val
            W == args.write_block_size.val
            R == args.read_block_size.val
            passes == exc.at # "__init__"
        IN  /\ write = S
            /\ W > S => /\ write_block = S
                        /\ passes => /\ wr_blocks = 1
                                      /\ wr_blocks * write_block = S
            /\ W <= S => write_block = W
            /\ R > S => /\ read_block = S
                        /\ passes => /\ rd_blocks = 1
                                      /\ rd_blocks * read_block = S
            /\ R <= S => read_block = R
            /\ (W > S /\ pc = "read_test") =>
                  (Len(write_results) = 1 /\ nwritten = S)
            /\ (R > S /\ pc = "report" /\ Len(file.data) = S) =>
                  preads = << <<0, S>> >>

\* C7's case: a run to the end with both block sizes above the total size
C7_Witness ==
    /\ pc = "exit"
    /\ args.write_block_size.val > args.size.val
    /\ args.read_block_size.val > args.size.val
    /\ args.size.val >= 2
    /\ wr_blocks = 1 /\ rd_blocks = 1

\* the ways to read s as <number>[<unit>]: digits, optionally a point and
\* digits, an optional single space, an optional unit in any case
SizeForms(s) ==
    {f \in [int : {SubSeq(s, 1, a) : a \in 1..Len(s)},
            frac : {<<>>} \cup {SubSeq(s, a, b) : a, b \in 1..Len(s)},
            space : {<<>>, <<" ">>},
            unit : UnitNames \cup {<<>>}] :
        /\ \A k \in 1..Len(f.int) : IsDigit(f.int[k])
        /\ \A k \in 1..Len(f.frac) : IsDigit(f.frac[k])
        /\ Upper(s) = f.int \o (IF f.frac = <<>> THEN <<>> ELSE <<".">> \o f.frac)
                            \o f.space \o f.unit}

\* k of the claim: 0 for B and for no unit, 1 for KB, 2 for MB, 3 for GB,
\* 4 for TB
UnitPower(u) ==
    CASE u = <<>>         -> 0
      [] u = <<"B">>      -> 0
      [] u = <<"K", "B">> -> 1
      [] u = <<"M", "B">> -> 2
      [] u = <<"G", "B">> -> 3
      [] u = <<"T", "B">> -> 4

\* C8: for every input <number>[<unit>], str_to_bytes returns the integer
\* number * 1024^k truncated toward zero, also for an input with no unit.
C8_ParsesEverySizeForm ==
    pc = "returned" =>
        \A f \in SizeForms(arg) :
            parsed = IntResult(IntOfProduct(f.int, f.frac, 1024^UnitPower(f.unit)))

\* C9: in JSON mode no output file exists after a run that ended in a fatal
\* error; it exists only after a run whose summary was computed.
C9_NoJsonFileOnFatalError ==
    /\ pc = "exit_error" => json_file = "absent"
    /\ json_file # "absent" => summary.ok

\* C10: the bytes written that the summary reports, and the numerator of its
\* write speed, are the bytes the write pass wrote:
\* (total_size div write_block) * write_block.
C10_ReportsBytesWritten ==
    summary.ok =>
        /\ nwritten = (write \div write_block) * write_block
        /\ summary.written_bytes = nwritten
        /\ summary.write_speed[1] = nwritten

====
